---- MODULE Spec2Model ----
(***************************************************************************)
(* One node of the multi-hop collection protocol (beacon flood, neighbour  *)
(* table, PRR accounting, aging, parent selection), as a state machine.    *)
(* The node's radio environment is nondeterministic: any beacon, data      *)
(* frame or ACK may be delivered at any time.  The cooperative scheduler   *)
(* runs each handler to completion; etimer expirations are enabled at any  *)
(* time (the periods T_DATA, T_RESELECT, T_BC are lower bounds only).      *)
(* The clock is counted in seconds (CLOCK_SECOND = 1).                     *)
(***************************************************************************)
EXTENDS Integers, FiniteSets, Sequences, TLC

\* ------------------------------------------------------------ constants
SINK_ID         == 1
HOPS_MAX        == 20
PRR_MIN_SAMPLES == 3
NBR_TTL         == 180
PICK_HOP        == 1
PICK_RSSI       == 2
PICK_PRR        == 3
UINT16_MAX      == 2^16 - 1

\* -------------------------------------------------------------- bounds
\* Table capacity.  The source has NBR_CAP 10; the model keeps the table
\* small enough for full-table eviction to be explored.
NBR_CAP      == 2
\* Identity of the non-sink node that is modelled.
SelfId       == 5
\* Beacon sequence numbers 1..MaxSeq.
MaxSeq       == 2
\* Rebroadcasts counted per sequence number.
MaxFwd       == 2
\* The clock advances by NBR_TTL or NBR_TTL + 1 at a time, up to MaxTime.
MaxTime      == 200
\* Transmissions are followed while the used records count fewer than MaxTx
\* of them and, for a record that has counted for a long time, through
\* [UINT16_MAX - WrapRoom, UINT16_MAX].
MaxTx        == 2
WrapRoom     == 1
\* Originated data frames (data_seq is followed through [0, MaxDataSeq] and
\* [UINT16_MAX - WrapRoom, UINT16_MAX]), sink beacons and histogram counts.
MaxDataSeq   == 1
MaxDiscSeq   == 1
MaxHist      == 1
\* Beacon rounds the sink of a network starts.
MaxRounds    == 2
\* The hops field of a relayed frame is followed through [0, MaxHops] and
\* [UINT16_MAX - WrapRoom, UINT16_MAX].
MaxHops      == 3
\* Beacons counted for one neighbour (rx_counter, dup_count) before the
\* radio environment of the tree-routing program stops repeating them.
MaxRx        == 2
\* Beacons the root originates, data packets a node originates.
MaxBeacons   == 1
MaxData      == 1

\* Neighbour ids heard on the radio: three neighbours, one more than the
\* table holds.
Ids       == {2, 3, 4}
Slots     == 0..(NBR_CAP - 1)
RssiVals  == {-60}
HopVals   == {1}
DataHops  == {1, HOPS_MAX}
TimeSteps == {NBR_TTL, NBR_TTL + 1}
Policies  == {PICK_HOP, PICK_RSSI, PICK_PRR}

\* Radio environment of Spec: every neighbour id, one beacon round.
Beacons      == [adv_parent : Ids, adv_hops : HopVals, adv_seq : {1}]
\* Radio environment of SpecFlood: one neighbour, every beacon sequence number.
FloodIds     == {2}
FloodRssi    == {-60, 20}
FloodBeacons == [adv_parent : FloodIds, adv_hops : {1, 2}, adv_seq : 1..MaxSeq]
\* Tables parent_reselect is applied to in SpecSelect.
SelRssi      == {-70, -60, 20}
SelHops      == {1, 2, UINT16_MAX}
SelCounts    == {<<0, 0>>, <<3, 1>>, <<4, 2>>}
\* ACKs already counted for the long-standing neighbour of SpecLongRun.
LongRunAcks  == {1, 100}
\* Frames already originated by the node of SpecLongRun.
LongRunSeqs  == {0, UINT16_MAX - WrapRoom}
DataMsgs  == [src : {SelfId + 1}, hops : DataHops, temp_raw : {6000}, data_id : {1}]

\* Data frames delivered to the sink of SpecPrint: raw codes over the whole
\* 16-bit range, hops outside the histogram.
PrintRaws == {r \in 0..UINT16_MAX : r % 100 = 0}
PrintMsgs == [src : {SelfId}, hops : {HOPS_MAX}, temp_raw : PrintRaws, data_id : {1}]

VARIABLES
  node_id,      \* this node's id
  policy,       \* PICK_POLICY (fixed at build time)
  now,          \* clock_time()
  nbrs,         \* nbrs[NBR_CAP]
  next_hop,     \* parent pointer, 0 = none
  prev,         \* static prev in cb_bc: the flood filter
  data_seq,     \* data_seq
  disc_seq_tx,  \* disc_seq_tx (sink)
  hop_hist,     \* hop_hist[HOPS_MAX] (sink)
  pick_pc,      \* position of proc_pick inside one pass
  bc_sent,      \* history: rebroadcasts sent per adv_seq
  acct,         \* history: per neighbour id, data frames sent / ACKs received
  bc_at,        \* history: time of the parent's last beacon, -1 if not heard as parent
  aged,         \* history: parent whose slot the running pass found stale
  silent,       \* history: parent whose last beacon the running pass found old
  shown,        \* output: the last temperature temp_print has printed
  net,          \* the nodes of a network and the frames in the air between them
  bnn           \* the nodes of the tree-routing program with BNN selection

vars == <<node_id, policy, now, nbrs, next_hop, prev, data_seq, disc_seq_tx,
          hop_hist, pick_pc, bc_sent, acct, bc_at, aged, silent, shown, net, bnn>>

\* ------------------------------------------------------- float values
\* A float is kept as an exact fraction in lowest terms.
RECURSIVE Gcd(_, _)
Gcd(a, b) == IF b = 0 THEN a ELSE Gcd(b, a % b)

Float(n, d) == LET g == Gcd(n, d) IN [num |-> n \div g, den |-> d \div g]

FZero     == [num |-> 0, den |-> 1]
FMinusOne == [num |-> -1, den |-> 1]

FGt(a, b) == a.num * b.den > b.num * a.den
FEq(a, b) == a.num * b.den = b.num * a.den

\* ---------------------------------------------------- neighbour table
nbr_init ==
  [i \in Slots |-> [used |-> 0, id |-> 0, tx |-> 0, rx_ack |-> 0, rssi |-> -127,
                    hops_via |-> UINT16_MAX, prr |-> FZero, seen_at |-> 0]]

RECURSIVE find_from(_, _, _)
find_from(t, id, i) ==
  IF i >= NBR_CAP THEN -1
  ELSE IF t[i].used = 1 /\ t[i].id = id THEN i
  ELSE find_from(t, id, i + 1)

\* nbr_find with the scan started one slot late.
nbr_find_skip0(t, id) == find_from(t, id, 1)

nbr_find(t, id) == find_from(t, id, 0)

nbr_touch(n, clk) == [n EXCEPT !.used = 1, !.seen_at = clk]

RECURSIVE free_from(_, _)
free_from(t, i) ==
  IF i >= NBR_CAP THEN -1
  ELSE IF t[i].used = 0 THEN i
  ELSE free_from(t, i + 1)

RECURSIVE oldest_from(_, _, _)
oldest_from(t, i, oldest) ==
  IF i >= NBR_CAP THEN oldest
  ELSE oldest_from(t, i + 1, IF t[i].seen_at < t[oldest].seen_at THEN i ELSE oldest)

\* upsert_slot evicting slot 0 from a full table whatever its age.
upsert_slot_zero(t, id) ==
  LET k == nbr_find(t, id)
      f == free_from(t, 0)
  IN  IF k >= 0 THEN k ELSE IF f >= 0 THEN f ELSE 0

\* The slot nbr_upsert writes: the id's slot, else the first free slot,
\* else the slot with the oldest seen_at.
upsert_slot(t, id) ==
  LET k == nbr_find(t, id)
      f == free_from(t, 0)
  IN  IF k >= 0 THEN k ELSE IF f >= 0 THEN f ELSE oldest_from(t, 1, 0)

nbr_upsert(t, id, rssi, hops, clk) ==
  LET k == nbr_find(t, id)
      s == upsert_slot(t, id)
  IN  IF k >= 0
      THEN [t EXCEPT ![k] = nbr_touch([@ EXCEPT !.rssi = rssi, !.hops_via = hops], clk)]
      ELSE [t EXCEPT ![s] = nbr_touch([@ EXCEPT !.id = id, !.rssi = rssi, !.hops_via = hops,
                                             !.tx = 0, !.rx_ack = 0, !.prr = FZero], clk)]

\* The expiry test with the TTL doubled.
Stale_2ttl(n, clk) == n.used = 1 /\ clk - n.seen_at > 2 * NBR_TTL

Stale(n, clk) == n.used = 1 /\ clk - n.seen_at > NBR_TTL

\* expire_slot without the reset of the parent pointer.
expire_slot_keep_parent(s, clk, i) ==
  IF Stale(s.t[i], clk) THEN [t |-> [s.t EXCEPT ![i].used = 0], nh |-> s.nh] ELSE s

\* One iteration of the loop of nbr_expire.
expire_slot(s, clk, i) ==
  IF Stale(s.t[i], clk)
  THEN [t  |-> [s.t EXCEPT ![i].used = 0],
        nh |-> IF s.t[i].id = s.nh THEN 0 ELSE s.nh]
  ELSE s

RECURSIVE expire_from(_, _, _)
expire_from(s, clk, i) ==
  IF i >= NBR_CAP THEN s ELSE expire_from(expire_slot(s, clk, i), clk, i + 1)

\* nbr_expire clearing the parent pointer on every call.
nbr_expire_clear(t, nh, clk) == [t |-> expire_from([t |-> t, nh |-> nh], clk, 0).t, nh |-> 0]

nbr_expire(t, nh, clk) == expire_from([t |-> t, nh |-> nh], clk, 0)

prr_bump(t, id, got_ack) ==
  LET k  == nbr_find(t, id)
      rx == IF got_ack = 1 THEN (t[k].rx_ack + 1) % (UINT16_MAX + 1) ELSE t[k].rx_ack
      tx == (t[k].tx + 1) % (UINT16_MAX + 1)
  IN  IF k < 0 THEN t
      ELSE [t EXCEPT ![k].rx_ack = rx, ![k].tx = tx,
                     ![k].prr = IF tx # 0 THEN Float(rx, tx) ELSE @]

touch_id(t, id, clk) ==
  LET k == nbr_find(t, id)
  IN  IF k >= 0 THEN [t EXCEPT ![k] = nbr_touch(@, clk)] ELSE t

\* parent_set clearing the pointer when it is called with the current parent.
parent_set_toggle(nh, id) == IF nh # id THEN id ELSE 0

parent_set(nh, id) == IF nh # id THEN id ELSE nh

\* ---------------------------------------------------------- selection
score_hop(n)  == IF n.hops_via = UINT16_MAX THEN FMinusOne ELSE [num |-> 1, den |-> 1 + n.hops_via]
score_rssi(n) == [num |-> n.rssi, den |-> 1]
score_prr(n)  == IF n.tx < PRR_MIN_SAMPLES THEN FMinusOne ELSE n.prr

score(pol, n) ==
  IF pol = PICK_PRR THEN score_prr(n)
  ELSE IF pol = PICK_RSSI THEN score_rssi(n)
  ELSE score_hop(n)

\* Tie-break of the main pass; b is the index of the current best.
tie_main(t, i, b) ==
  \/ t[i].hops_via < t[b].hops_via
  \/ t[i].hops_via = t[b].hops_via /\ t[i].rssi > t[b].rssi
  \/ t[i].hops_via = t[b].hops_via /\ t[i].rssi = t[b].rssi /\ t[i].id < t[b].id

\* Tie-break of the fallback pass.
tie_fallback(t, i, b) ==
  \/ t[i].hops_via < t[b].hops_via
  \/ t[i].hops_via = t[b].hops_via /\ t[i].rssi > t[b].rssi

\* One iteration of a selection loop; c = [best, s_best], best = -1 is NULL.
pick_slot(t, pol, main, c, i) ==
  LET s == score(pol, t[i])
  IN  IF t[i].used = 0 THEN c
      ELSE IF FGt(s, c.s_best) THEN [best |-> i, s_best |-> s]
      ELSE IF FEq(s, c.s_best) /\ c.best >= 0
           THEN IF (IF main THEN tie_main(t, i, c.best) ELSE tie_fallback(t, i, c.best))
                THEN [c EXCEPT !.best = i] ELSE c
      ELSE c

RECURSIVE pick_from(_, _, _, _, _)
pick_from(t, pol, main, c, i) ==
  IF i >= NBR_CAP THEN c ELSE pick_from(t, pol, main, pick_slot(t, pol, main, c, i), i + 1)

\* pick_best with the fallback pass run whatever the main pass found.
pick_best_always_fallback(t, pol) ==
  LET m == pick_from(t, pol, TRUE, [best |-> -1, s_best |-> FMinusOne], 0)
  IN  IF pol = PICK_PRR
      THEN pick_from(t, PICK_HOP, FALSE, m, 0).best
      ELSE m.best

\* The slot parent_reselect ends with in best (-1: none).
pick_best(t, pol) ==
  LET m == pick_from(t, pol, TRUE, [best |-> -1, s_best |-> FMinusOne], 0)
  IN  IF pol = PICK_PRR /\ m.best < 0
      THEN pick_from(t, PICK_HOP, FALSE, m, 0).best
      ELSE m.best

parent_reselect(t, nh, pol) ==
  LET b == pick_best(t, pol) IN IF b >= 0 THEN parent_set(nh, t[b].id) ELSE nh

\* ---------------------------------------------------------- temp_print
\* Integer division and remainder of C: the quotient is truncated towards
\* zero and the remainder has the sign of the dividend.
c_div(a, b) == IF a >= 0 THEN a \div b ELSE -((-a) \div b)
c_mod(a, b) == a - b * c_div(a, b)

\* The two numbers temp_print prints around the dot.
temp_print(raw) ==
  [raw |-> raw, int |-> c_div(c_div(raw, 10) - 396, 10), frac |-> c_mod(c_div(raw, 10) - 396, 10)]

NoTemp == [raw |-> -1, int |-> 0, frac |-> 0]
\* No network: the node is modelled alone, its radio environment is free.
NoNet  == <<>>
\* The tree-routing program is not running.
NoBnn  == <<>>

\* --------------------------------------------------------------- state
HistZero == [k \in 0..(HOPS_MAX - 1) |-> 0]
NoAcct   == [s |-> 0, a |-> 0]

Init ==
  /\ node_id \in {SINK_ID, SelfId}
  /\ policy \in Policies
  /\ now = 0
  /\ nbrs = nbr_init
  /\ next_hop = 0
  /\ prev = 0
  /\ data_seq = 0
  /\ disc_seq_tx = 0
  /\ hop_hist = HistZero
  /\ pick_pc = "wait"
  /\ bc_sent = [q \in 1..MaxSeq |-> 0]
  /\ acct = [id \in Ids |-> NoAcct]
  /\ bc_at = -1
  /\ aged = 0
  /\ silent = 0
  /\ shown = NoTemp
  /\ net = NoNet
  /\ bnn = NoBnn

\* History of the ids that are in the table: reset when an id leaves it.
InTable(t, id) == nbr_find(t, id) >= 0

RECURSIVE tx_sum(_, _)
tx_sum(t, i) ==
  IF i >= NBR_CAP THEN 0
  ELSE (IF t[i].used = 1 THEN t[i].tx ELSE 0) + tx_sum(t, i + 1)

TxRoom(t, id) ==
  LET k == nbr_find(t, id)
  IN  k >= 0 => (tx_sum(t, 0) < MaxTx \/ t[k].tx >= UINT16_MAX - WrapRoom)

Keep(t2, h, zero) == [id \in Ids |-> IF InTable(t2, id) THEN h[id] ELSE zero]

Charge(h, t, id, f) ==
  IF id \in Ids /\ InTable(t, id) THEN [h EXCEPT ![id][f] = @ + 1] ELSE h

data_send(t, nh) == prr_bump(t, nh, 0)

\* ------------------------------------------------------------- actions
\* The clock moves on between handlers.
Tick(dt) ==
  /\ pick_pc = "wait"
  /\ now + dt <= MaxTime
  /\ now' = now + dt
  /\ UNCHANGED <<shown, net, bnn, node_id, policy, nbrs, next_hop, prev, data_seq, disc_seq_tx,
                 hop_hist, pick_pc, bc_sent, acct, bc_at, aged, silent>>

\* proc_route: the sink emits beacon {SINK_ID, 1, ++disc_seq_tx}.
ProcRoute ==
  /\ pick_pc = "wait"
  /\ node_id = SINK_ID
  /\ disc_seq_tx < MaxDiscSeq
  /\ disc_seq_tx' = (disc_seq_tx + 1) % (UINT16_MAX + 1)
  /\ UNCHANGED <<shown, net, bnn, node_id, policy, now, nbrs, next_hop, prev, data_seq,
                 hop_hist, pick_pc, bc_sent, acct, bc_at, aged, silent>>

\* proc_data originating a frame whether or not the node has a parent.
ProcData_no_parent_check ==
  /\ pick_pc = "wait"
  /\ IF node_id # SINK_ID
     THEN /\ (data_seq < MaxDataSeq \/ data_seq >= UINT16_MAX - WrapRoom)
          /\ TxRoom(nbrs, next_hop)
          /\ data_seq' = (data_seq + 1) % (UINT16_MAX + 1)
          /\ nbrs' = data_send(nbrs, next_hop)
          /\ acct' = Charge(acct, nbrs, next_hop, "s")
          /\ UNCHANGED hop_hist
     ELSE IF node_id = SINK_ID
     THEN /\ hop_hist[0] < MaxHist
          /\ hop_hist' = [hop_hist EXCEPT ![0] = @ + 1]
          /\ UNCHANGED <<data_seq, nbrs, acct>>
     ELSE UNCHANGED <<data_seq, nbrs, acct, hop_hist>>
  /\ UNCHANGED <<shown, net, bnn, node_id, policy, now, next_hop, prev, disc_seq_tx,
                 pick_pc, bc_sent, bc_at, aged, silent>>

\* proc_data: the data timer fires.
ProcData ==
  /\ pick_pc = "wait"
  /\ IF node_id # SINK_ID /\ next_hop # 0
     THEN /\ (data_seq < MaxDataSeq \/ data_seq >= UINT16_MAX - WrapRoom)
          /\ TxRoom(nbrs, next_hop)
          /\ data_seq' = (data_seq + 1) % (UINT16_MAX + 1)
          /\ nbrs' = data_send(nbrs, next_hop)
          /\ acct' = Charge(acct, nbrs, next_hop, "s")
          /\ UNCHANGED hop_hist
     ELSE IF node_id = SINK_ID
     THEN /\ hop_hist[0] < MaxHist
          /\ hop_hist' = [hop_hist EXCEPT ![0] = @ + 1]
          /\ UNCHANGED <<data_seq, nbrs, acct>>
     ELSE UNCHANGED <<data_seq, nbrs, acct, hop_hist>>
  /\ UNCHANGED <<shown, net, bnn, node_id, policy, now, next_hop, prev, disc_seq_tx,
                 pick_pc, bc_sent, bc_at, aged, silent>>

\* proc_pick, first half of a pass: nbr_expire().
PickExpire ==
  /\ pick_pc = "wait"
  /\ LET e == nbr_expire(nbrs, next_hop, now)
         k == nbr_find(nbrs, next_hop)
     IN  /\ nbrs' = e.t
         /\ next_hop' = e.nh
         /\ acct' = Keep(e.t, acct, NoAcct)
         /\ bc_at' = IF e.nh # 0 /\ InTable(e.t, e.nh) THEN bc_at ELSE -1
         /\ IF node_id # SINK_ID
            THEN /\ pick_pc' = "reselect"
                 /\ aged' = IF next_hop # 0 /\ k >= 0 /\ now - nbrs[k].seen_at > NBR_TTL
                            THEN next_hop ELSE 0
                 /\ silent' = IF next_hop # 0 /\ k >= 0 /\ bc_at >= 0 /\ now - bc_at > NBR_TTL
                              THEN next_hop ELSE 0
            ELSE UNCHANGED <<pick_pc, aged, silent>>
  /\ UNCHANGED <<shown, net, bnn, node_id, policy, now, prev, data_seq, disc_seq_tx, hop_hist, bc_sent>>

\* proc_pick, second half of a pass: parent_reselect() on a non-sink node.
PickReselect ==
  /\ pick_pc = "reselect"
  /\ next_hop' = parent_reselect(nbrs, next_hop, policy)
  /\ bc_at' = IF next_hop' = next_hop THEN bc_at ELSE -1
  /\ pick_pc' = "wait"
  /\ aged' = 0
  /\ silent' = 0
  /\ UNCHANGED <<shown, net, bnn, node_id, policy, now, nbrs, prev, data_seq, disc_seq_tx,
                 hop_hist, bc_sent, acct>>

\* The flood filter of cb_bc: whether beacon b is rebroadcast.
bc_fwd(p, b) == p = 0 \/ b.adv_seq > p

\* cb_bc: a beacon b is received with the given RSSI.
CbBc(b, rssi) ==
  /\ pick_pc = "wait"
  /\ IF node_id = SINK_ID
     THEN UNCHANGED <<nbrs, next_hop, prev, bc_sent, acct, bc_at>>
     ELSE LET t1 == nbr_upsert(nbrs, b.adv_parent, rssi, b.adv_hops, now)
          IN  /\ bc_fwd(prev, b) => bc_sent[b.adv_seq] < MaxFwd
              /\ nbrs' = t1
              /\ next_hop' = IF prev = 0 THEN parent_set(next_hop, b.adv_parent) ELSE next_hop
              /\ prev' = b.adv_seq
              /\ bc_sent' = IF bc_fwd(prev, b) THEN [bc_sent EXCEPT ![b.adv_seq] = @ + 1]
                            ELSE bc_sent
              /\ acct' = Keep(t1, IF InTable(nbrs, b.adv_parent) THEN acct
                                  ELSE [acct EXCEPT ![b.adv_parent] = NoAcct], NoAcct)
              /\ bc_at' = IF next_hop' = b.adv_parent THEN now
                            ELSE IF InTable(t1, next_hop') THEN bc_at ELSE -1
  /\ UNCHANGED <<shown, net, bnn, node_id, policy, now, data_seq, disc_seq_tx, hop_hist, pick_pc, aged, silent>>

\* cb_uc_data: data frame d is received from neighbour from.
CbUcData(from, d) ==
  /\ pick_pc = "wait"
  /\ LET t1 == touch_id(nbrs, from, now)
     IN  IF node_id = SINK_ID
         THEN /\ d.hops < HOPS_MAX => hop_hist[d.hops] < MaxHist
              /\ hop_hist' = IF d.hops < HOPS_MAX THEN [hop_hist EXCEPT ![d.hops] = @ + 1]
                             ELSE hop_hist
              /\ nbrs' = t1
              /\ shown' = temp_print(d.temp_raw)
              /\ UNCHANGED acct
         ELSE /\ TxRoom(t1, next_hop)
              /\ nbrs' = data_send(t1, next_hop)
              /\ acct' = Charge(acct, t1, next_hop, "s")
              /\ UNCHANGED <<hop_hist, shown>>
  /\ UNCHANGED <<net, bnn, node_id, policy, now, next_hop, prev, data_seq, disc_seq_tx,
                 pick_pc, bc_sent, bc_at, aged, silent>>

\* cb_uc_ack: an ACK is received from neighbour from.
CbUcAck(from) ==
  /\ pick_pc = "wait"
  /\ TxRoom(nbrs, from)
  /\ nbrs' = touch_id(prr_bump(nbrs, from, 1), from, now)
  /\ acct' = Charge(acct, nbrs, from, "a")
  /\ UNCHANGED <<shown, net, bnn, node_id, policy, now, next_hop, prev, data_seq, disc_seq_tx,
                 hop_hist, pick_pc, bc_sent, bc_at, aged, silent>>

Next ==
  \/ \E dt \in TimeSteps : Tick(dt)
  \/ ProcRoute
  \/ ProcData
  \/ PickExpire
  \/ PickReselect
  \/ \E b \in Beacons, rssi \in RssiVals : CbBc(b, rssi)
  \/ \E from \in Ids, d \in DataMsgs : CbUcData(from, d)
  \/ \E from \in Ids : CbUcAck(from)

Spec == Init /\ [][Next]_vars

\* The same node in the radio environment FloodBeacons.
NextFlood ==
  \/ \E dt \in TimeSteps : Tick(dt)
  \/ ProcRoute
  \/ ProcData
  \/ PickExpire
  \/ PickReselect
  \/ \E b \in FloodBeacons, rssi \in FloodRssi : CbBc(b, rssi)
  \/ \E from \in FloodIds, d \in DataMsgs : CbUcData(from, d)
  \/ \E from \in FloodIds : CbUcAck(from)

SpecFlood == Init /\ [][NextFlood]_vars

\* parent_reselect as a function of the table: every table of distinct
\* neighbours over SelRssi, SelHops and SelCounts, in the middle of a pass.
SelSlots ==
  {nbr_init[0]} \cup
  {[used |-> 1, id |-> id, tx |-> c[1], rx_ack |-> c[2], rssi |-> r, hops_via |-> h,
    prr |-> IF c[1] = 0 THEN FZero ELSE Float(c[2], c[1]), seen_at |-> 0] :
     id \in Ids, r \in SelRssi, h \in SelHops, c \in SelCounts}

SelTables ==
  {t \in [Slots -> SelSlots] :
     \A i, j \in Slots : (t[i].used = 1 /\ t[j].used = 1 /\ t[i].id = t[j].id) => i = j}

InitSelect ==
  /\ node_id = SelfId
  /\ policy \in Policies
  /\ now = 0
  /\ nbrs \in SelTables
  /\ next_hop = 0
  /\ prev = 1
  /\ data_seq = 0
  /\ disc_seq_tx = 0
  /\ hop_hist = HistZero
  /\ pick_pc = "reselect"
  /\ bc_sent = [q \in 1..MaxSeq |-> IF q = 1 THEN 1 ELSE 0]
  /\ acct = [id \in Ids |-> NoAcct]
  /\ bc_at = -1
  /\ aged = 0
  /\ silent = 0
  /\ shown = NoTemp
  /\ net = NoNet
  /\ bnn = NoBnn

NextSelect == PickReselect

SpecSelect == InitSelect /\ [][NextSelect]_vars

\* A non-sink node that has been up for weeks: its parent's record has
\* counted almost 2^16 transmissions.
InitLongRun ==
  /\ node_id = SelfId
  /\ policy \in Policies
  /\ now = 0
  /\ \E r \in LongRunAcks :
       nbrs = [nbr_init EXCEPT ![0] =
                 [used |-> 1, id |-> 2, tx |-> UINT16_MAX - WrapRoom, rx_ack |-> r,
                  rssi |-> -60, hops_via |-> 1,
                  prr |-> Float(r, UINT16_MAX - WrapRoom), seen_at |-> 0]]
  /\ next_hop = 2
  /\ prev = 1
  /\ data_seq \in LongRunSeqs
  /\ disc_seq_tx = 0
  /\ hop_hist = HistZero
  /\ pick_pc = "wait"
  /\ bc_sent = [q \in 1..MaxSeq |-> IF q = 1 THEN 1 ELSE 0]
  /\ acct = [id \in Ids |-> NoAcct]
  /\ bc_at = -1
  /\ aged = 0
  /\ silent = 0
  /\ shown = NoTemp
  /\ net = NoNet
  /\ bnn = NoBnn

NextLongRun ==
  \/ \E dt \in TimeSteps : Tick(dt)
  \/ ProcData
  \/ PickExpire
  \/ PickReselect
  \/ \E b \in FloodBeacons, rssi \in FloodRssi : CbBc(b, rssi)
  \/ \E from \in FloodIds, d \in DataMsgs : CbUcData(from, d)
  \/ \E from \in FloodIds : CbUcAck(from)

SpecLongRun == InitLongRun /\ [][NextLongRun]_vars

\* ------------------------------------------------------------ network
\* Several nodes running the same code; net holds, per node, its table, its
\* parent pointer and its flood filter, and the frames in the air.  The
\* topology is static, no frame is lost and the copies of a broadcast are
\* delivered one by one in any order.  No record ages during the rounds
\* (the clock of the network stands still).
NetNodes == {SINK_ID, 2, 3, 4}
NetLinks == {{SINK_ID, 2}, {SINK_ID, 3}, {2, 3}, {2, 4}}
NetRssi  == -60

\* The nodes in radio range of n.
Nbrs(n) == {m \in NetNodes : {n, m} \in net.links}

\* Nodes within k hops of the sink, and the hop count of the shortest path.
RECURSIVE within(_)
within(k) ==
  IF k = 0 THEN {SINK_ID}
  ELSE within(k - 1) \cup {m \in NetNodes : \E n \in within(k - 1) : {n, m} \in NetLinks}

hop_dist(n) == CHOOSE k \in 0..Cardinality(NetNodes) :
                 n \in within(k) /\ \A j \in 0..(k - 1) : n \notin within(j)

\* The variables of the node modelled alone; they rest while a network runs.
node_vars == <<node_id, policy, now, nbrs, next_hop, prev, data_seq, disc_seq_tx,
               hop_hist, pick_pc, bc_sent, acct, bc_at, aged, silent, shown>>

Resting ==
  /\ node_id = SINK_ID
  /\ now = 0
  /\ nbrs = nbr_init
  /\ next_hop = 0
  /\ prev = 0
  /\ data_seq = 0
  /\ disc_seq_tx = 0
  /\ hop_hist = HistZero
  /\ pick_pc = "wait"
  /\ bc_sent = [q \in 1..MaxSeq |-> 0]
  /\ acct = [id \in Ids |-> NoAcct]
  /\ bc_at = -1
  /\ aged = 0
  /\ silent = 0
  /\ shown = NoTemp

\* Position of node n inside data_send: NoSend when no send is running, else
\* the frame handed to unicast_send whose prr_bump is still to come.
NoSend == <<>>

\* Tasks and callbacks of a node start only when none is running on it.
Idle_any(n) == TRUE

Idle(n) == net.pc[n] = NoSend

\* Every node after the initialisation of proc_route.
NetBoot ==
          [links  |-> NetLinks,
            tbl    |-> [n \in NetNodes |-> nbr_init],
            nh     |-> [n \in NetNodes |-> 0],
            pv     |-> [n \in NetNodes |-> 0],
            seq    |-> 0,
            picked |-> [n \in NetNodes |-> FALSE],
            air    |-> {},
            clk    |-> 0,
            dseq   |-> [n \in NetNodes |-> 0],
            pc     |-> [n \in NetNodes |-> NoSend],
            frames |-> {},
            acks   |-> {},
            log    |-> {},
            charged |-> {}]

InitNet ==
  /\ Resting
  /\ policy = PICK_HOP
  /\ net = NetBoot
  /\ bnn = NoBnn

\* The copies of beacon b that are put in the air by node n.
bc_copies(n, b) == {[to |-> m, b |-> b] : m \in Nbrs(n)}

\* proc_route on the sink: a new round, once the previous one has died out
\* (T_BC is far longer than a flood).
NetRoute ==
  /\ Idle(SINK_ID)
  /\ net.seq < MaxRounds
  /\ net.air = {}
  /\ net' = [net EXCEPT
               !.seq = (net.seq + 1) % (UINT16_MAX + 1),
               !.air = bc_copies(SINK_ID, [adv_parent |-> SINK_ID, adv_hops |-> 1,
                                           adv_seq |-> (net.seq + 1) % (UINT16_MAX + 1)])]
  /\ UNCHANGED <<node_vars, bnn>>

\* cb_bc on node c.to for the copy c.
NetBc(c) ==
  /\ c \in net.air
  /\ Idle(c.to)
  /\ LET n   == c.to
         b   == c.b
         out == [adv_parent |-> n, adv_hops |-> (b.adv_hops + 1) % (UINT16_MAX + 1),
                 adv_seq |-> b.adv_seq]
     IN  IF n = SINK_ID
         THEN net' = [net EXCEPT !.air = @ \ {c}]
         ELSE net' = [net EXCEPT
                        !.tbl[n] = nbr_upsert(@, b.adv_parent, NetRssi, b.adv_hops, net.clk),
                        !.nh[n]  = IF net.pv[n] = 0 THEN parent_set(@, b.adv_parent) ELSE @,
                        !.pv[n]  = b.adv_seq,
                        !.picked[n] = FALSE,
                        !.air = (@ \ {c}) \cup
                                (IF bc_fwd(net.pv[n], b) THEN bc_copies(n, out) ELSE {})]
  /\ UNCHANGED <<node_vars, bnn>>

\* proc_pick on node n: nbr_expire, then parent_reselect on a non-sink node.
NetPick(n) ==
  /\ Idle(n)
  /\ ~net.picked[n]
  /\ LET e == nbr_expire(net.tbl[n], net.nh[n], net.clk)
     IN  net' = [net EXCEPT
                   !.tbl[n] = e.t,
                   !.nh[n]  = IF n # SINK_ID THEN parent_reselect(e.t, e.nh, policy) ELSE e.nh,
                   !.picked[n] = TRUE]
  /\ UNCHANGED <<node_vars, bnn>>

NextNet ==
  \/ NetRoute
  \/ \E c \in net.air : NetBc(c)
  \/ \E n \in NetNodes : NetPick(n)

SpecNet == InitNet /\ [][NextNet]_vars

\* ---- the network with losses and aging ----

\* The instants that are followed: the start of a round, one tick later,
\* and the first instant at which a record made at 0 is stale.
NetTimes == {0, 1, NBR_TTL + 1}

\* Time passes on every node; the proc_pick timers become due again. A
\* beacon is in the air for less than a tick or two.
NetTick(t) ==
  /\ \A n \in NetNodes : Idle(n)
  /\ t > net.clk
  /\ t > net.clk + 1 => net.air = {}
  /\ net' = [net EXCEPT !.clk = t, !.picked = [n \in NetNodes |-> FALSE]]
  /\ UNCHANGED <<node_vars, bnn>>

\* The copy c of a beacon is lost on the radio.
NetLose(c) ==
  /\ c \in net.air
  /\ net' = [net EXCEPT !.air = @ \ {c}]
  /\ UNCHANGED <<node_vars, bnn>>

\* A line: the sink, node 2, node 4; node 3 is out of range of all.
LineLinks == {{SINK_ID, 2}, {2, 4}}

InitLoop ==
  /\ Resting
  /\ policy = PICK_HOP
  /\ net = [NetBoot EXCEPT !.links = LineLinks]
  /\ bnn = NoBnn

NextLoop ==
  \/ NetRoute
  \/ \E c \in net.air : NetBc(c)
  \/ \E c \in net.air : NetLose(c)
  \/ \E n \in NetNodes : NetPick(n)
  \/ \E t \in NetTimes : NetTick(t)

SpecLoop == InitLoop /\ [][NextLoop]_vars

\* ---- data and ACK traffic in the network ----

\* Nodes whose proc_data timer fires in the window that is followed.
RelaySources == {4}

RelayTemp == 6000

\* Tables after one discovery round: each node but the sink, whose cb_bc
\* returns at once, holds the beacons it heard (node 2 heard node 3 before
\* the sink, and node 4 last).
RelayTbl ==
  [n \in NetNodes |->
     IF n = SINK_ID THEN nbr_init
     ELSE IF n = 2  THEN nbr_upsert(nbr_upsert(nbr_upsert(nbr_init, 3, NetRssi, 2, 0),
                                               SINK_ID, NetRssi, 1, 0), 4, NetRssi, 4, 0)
     ELSE IF n = 3  THEN nbr_upsert(nbr_upsert(nbr_init, SINK_ID, NetRssi, 1, 0), 2, NetRssi, 3, 0)
     ELSE nbr_upsert(nbr_init, 2, NetRssi, 3, 0)]

RelayNh == [n \in NetNodes |-> IF n = SINK_ID THEN 0 ELSE IF n = 4 THEN 2 ELSE SINK_ID]

\* The network after one discovery round, no data sent yet.
RelayNormal ==
  [links  |-> NetLinks,
   tbl    |-> RelayTbl,
   nh     |-> RelayNh,
   pv     |-> [n \in NetNodes |-> IF n = SINK_ID THEN 0 ELSE 1],
   seq    |-> 1,
   picked |-> [n \in NetNodes |-> TRUE],
   air    |-> {},
   clk    |-> 0,
   dseq   |-> [n \in NetNodes |-> 0],
   pc     |-> [n \in NetNodes |-> NoSend],
   frames |-> {},
   acks   |-> {},
   log    |-> {},
   charged |-> {}]

\* The same network after the sink has been silent for more than NBR_TTL
\* while node 4 kept sending to node 2: the records that data frames and
\* ACKs touch (cb_uc_data, cb_uc_ack) are fresh, every other record has been
\* dropped by nbr_expire and parent_reselect has run on what is left.
LoopClk == NBR_TTL + 1

LoopTbl ==
  [n \in NetNodes |->
     LET t == IF n = 2 THEN touch_id(RelayTbl[n], 4, LoopClk)
              ELSE IF n = 4 THEN touch_id(RelayTbl[n], 2, LoopClk)
              ELSE RelayTbl[n]
     IN  nbr_expire(t, RelayNh[n], LoopClk)]

LoopOrg == [src |-> 4, hops |-> 1, temp_raw |-> RelayTemp, data_id |-> 1]

\* The frame of node 4 that nodes 2 and 4 hand to each other, near the wrap
\* of its hops field.
LoopFrame ==
  [to |-> 2, from |-> 4,
   d |-> [LoopOrg EXCEPT !.hops = UINT16_MAX - WrapRoom],
   relays |-> UINT16_MAX - WrapRoom - 1,
   org |-> LoopOrg]

\* The sink is back and node 2 has heard its beacon of round 2 (cb_bc: the
\* record is made, prev is set, the parent is left alone); the other copies
\* of that round were lost and proc_pick of node 2 has not run since.
RelayLoop ==
  [RelayNormal EXCEPT
     !.tbl    = [n \in NetNodes |->
                   IF n = 2 THEN nbr_upsert(LoopTbl[n].t, SINK_ID, NetRssi, 1, LoopClk)
                   ELSE LoopTbl[n].t],
     !.pv[2]  = 2,
     !.seq    = 2,
     !.picked[2] = FALSE,
     !.nh     = [n \in NetNodes |->
                   IF n # SINK_ID THEN parent_reselect(LoopTbl[n].t, LoopTbl[n].nh, PICK_HOP)
                   ELSE LoopTbl[n].nh],
     !.clk    = LoopClk,
     !.dseq   = [n \in NetNodes |-> IF n = 4 THEN 1 ELSE 0],
     !.frames = {LoopFrame},
     !.charged = {LoopFrame}]

\* The line of SpecLoop after one round whose rebroadcast by node 4 was
\* lost at node 2, followed by more than NBR_TTL of silence: proc_pick of
\* node 2 has dropped the sink's record and found no candidate, proc_pick
\* of node 4 is still to run.
OrphanTbl2 == nbr_expire(nbr_upsert(nbr_init, SINK_ID, NetRssi, 1, 0), SINK_ID, LoopClk)

RelayOrphan ==
  [RelayNormal EXCEPT
     !.links  = LineLinks,
     !.tbl    = [n \in NetNodes |->
                   IF n = 2 THEN OrphanTbl2.t
                   ELSE IF n = 4 THEN nbr_upsert(nbr_init, 2, NetRssi, 2, 0)
                   ELSE nbr_init],
     !.nh     = [n \in NetNodes |->
                   IF n = 2 THEN parent_reselect(OrphanTbl2.t, OrphanTbl2.nh, PICK_HOP)
                   ELSE IF n = 4 THEN 2 ELSE 0],
     !.pv     = [n \in NetNodes |-> IF n \in {2, 4} THEN 1 ELSE 0],
     !.picked = [n \in NetNodes |-> n = 2],
     !.clk    = LoopClk]

InitRelay ==
  /\ Resting
  /\ policy = PICK_HOP
  /\ net \in {RelayNormal, RelayLoop, RelayOrphan}
  /\ bnn = NoBnn

\* unicast_send(&uc_data, &nh) of data_send at node n: the frame on the air.
data_frame(n, d, relays, org) ==
  [to |-> net.nh[n], from |-> n, d |-> d, relays |-> relays, org |-> org]

on_air(f) == IF f.to \in NetNodes THEN {f} ELSE {}

\* proc_data at a non-sink node with a parent, up to the return of
\* unicast_send in data_send.
NetData(n) ==
  /\ Idle(n)
  /\ n # SINK_ID /\ net.nh[n] # 0
  /\ (net.dseq[n] < MaxDataSeq \/ net.dseq[n] >= UINT16_MAX - WrapRoom)
  /\ LET id == (net.dseq[n] + 1) % (UINT16_MAX + 1)
         d  == [src |-> n, hops |-> 1, temp_raw |-> RelayTemp, data_id |-> id]
         f  == data_frame(n, d, 0, d)
     IN  net' = [net EXCEPT !.dseq[n] = id,
                            !.frames  = @ \cup on_air(f),
                            !.pc[n]   = f]
  /\ UNCHANGED <<node_vars, bnn>>

\* prr_bump(next_hop, 0) of data_send at node n, the rest of the handler.
NetCharge(n) ==
  /\ net.pc[n] # NoSend
  /\ net' = [net EXCEPT !.tbl[n]  = prr_bump(@, net.nh[n], 0),
                        !.charged = @ \cup {net.pc[n]},
                        !.pc[n]   = NoSend]
  /\ UNCHANGED <<node_vars, bnn>>

\* cb_uc_data at the node frame f is addressed to, up to the return of
\* unicast_send in data_send when the node is a relay.
NetUcData(f) ==
  /\ f \in net.frames
  /\ Idle(f.to)
  /\ LET r  == f.to
         a  == [to |-> f.from, from |-> r, data_id |-> f.d.data_id, of |-> f]
         t1 == touch_id(net.tbl[r], f.from, net.clk)
         d2 == [f.d EXCEPT !.hops = (@ + 1) % (UINT16_MAX + 1)]
         f2 == data_frame(r, d2, f.relays + 1, f.org)
     IN  IF r = SINK_ID
         THEN net' = [net EXCEPT !.frames = @ \ {f},
                                 !.acks   = @ \cup {a},
                                 !.tbl[r] = t1,
                                 !.log    = @ \cup {[d |-> f.d, relays |-> f.relays, org |-> f.org]}]
         ELSE /\ (f.d.hops < MaxHops \/ f.d.hops >= UINT16_MAX - WrapRoom)
              /\ net' = [net EXCEPT !.frames = (@ \ {f}) \cup on_air(f2),
                                    !.acks   = @ \cup {a},
                                    !.tbl[r] = t1,
                                    !.pc[r]  = f2]
  /\ UNCHANGED <<node_vars, bnn>>

\* cb_uc_ack at the node ACK a is addressed to.
NetUcAck(a) ==
  /\ a \in net.acks
  /\ Idle(a.to)
  /\ net' = [net EXCEPT !.tbl[a.to] = touch_id(prr_bump(@, a.from, 1), a.from, net.clk),
                        !.acks      = @ \ {a}]
  /\ UNCHANGED <<node_vars, bnn>>

NextRelay ==
  \/ \E n \in NetNodes : NetPick(n)
  \/ \E n \in RelaySources : NetData(n)
  \/ \E n \in NetNodes : NetCharge(n)
  \/ \E f \in net.frames : NetUcData(f)
  \/ \E a \in net.acks : NetUcAck(a)

SpecRelay == InitRelay /\ [][NextRelay]_vars

\* ------------------------------------- tree routing with BNN selection
\* The second program of the repository: every node keeps a table of at
\* most MAX_NEIGHBORS neighbours ordered by RSSI, floods the beacons of
\* the root and sends its data to the first entry of the table.
MAX_NEIGHBORS   == 3
OF_DECAY_STEP   == 1
MAX_BEACON_HOPS == 6
RSSI_HYST_DB    == 3
\* HOLD_WINDOW in seconds (CLOCK_SECOND = 1).
HOLD_WINDOW     == 20
ROOT_ID         == 1
\* d.ttl of an originated data packet.
DATA_TTL        == 10
UINT8_MAX       == 255

seq_dist(a, b) == (b - a) % (UINT16_MAX + 1)

seq_newer(new_s, ref_s) == new_s # ref_s /\ seq_dist(ref_s, new_s) < 32768

\* The table is neighbor_table[0 .. neighbor_count - 1] as a sequence:
\* entry i of the code is element i + 1, and index 0 stands for -1.
RECURSIVE find_neighbor_from(_, _, _)
find_neighbor_from(t, addr, i) ==
  IF i > Len(t) THEN 0
  ELSE IF t[i].addr = addr THEN i
  ELSE find_neighbor_from(t, addr, i + 1)

find_neighbor(t, addr) == find_neighbor_from(t, addr, 1)

remove_neighbor(t, idx) ==
  LET m == IF idx < Len(t) THEN [t EXCEPT ![idx] = t[Len(t)]] ELSE t
  IN  SubSeq(m, 1, Len(t) - 1)

RECURSIVE sort_inner(_, _, _)
sort_inner(t, i, j) ==
  IF j > Len(t) THEN t
  ELSE sort_inner(IF t[j].rssi > t[i].rssi
                  THEN [t EXCEPT ![i] = t[j], ![j] = t[i]] ELSE t, i, j + 1)

RECURSIVE sort_outer(_, _)
sort_outer(t, i) ==
  IF i >= Len(t) THEN t ELSE sort_outer(sort_inner(t, i, i + 1), i + 1)

sort_neighbors_by_rssi(t) == sort_outer(t, 1)

\* The victim of update_neighbor: the weakest RSSI, the first among equals.
RECURSIVE victim_from(_, _, _)
victim_from(t, i, victim) ==
  IF i > MAX_NEIGHBORS THEN victim
  ELSE victim_from(t, i + 1, IF t[i].rssi < t[victim].rssi THEN i ELSE victim)

\* The admission test replacing whenever the table is full.
allow_replace_always(rssi_new, v, clk) == TRUE

\* allow_replace of update_neighbor for the victim v.
allow_replace(rssi_new, v, clk) ==
  IF rssi_new >= v.rssi + RSSI_HYST_DB THEN TRUE
  ELSE IF clk >= v.lock_until THEN FALSE
  ELSE FALSE

new_neighbor(addr, rssi_new, root_seq, clk) ==
  [addr |-> addr, rssi |-> rssi_new, first_seq |-> root_seq, last_seq |-> root_seq,
   rx_unique |-> 1, dup_count |-> 0, tx_est |-> 1, prr1000 |-> 1000, rx_counter |-> 1,
   last_update_time |-> clk, lock_until |-> clk + HOLD_WINDOW]

\* The update in place of an entry that is in the table.
refresh_neighbor(n, rssi_new, root_seq, clk) ==
  LET dup   == root_seq = n.last_seq
      newer == ~dup /\ seq_newer(root_seq, n.last_seq)
      uniq  == IF newer THEN (n.rx_unique + 1) % (UINT16_MAX + 1) ELSE n.rx_unique
      last  == IF newer THEN root_seq ELSE n.last_seq
      est   == (seq_dist(n.first_seq, last) + 1) % (UINT16_MAX + 1)
  IN  [n EXCEPT !.rssi = c_div(3 * n.rssi + rssi_new, 4),
                !.last_update_time = clk,
                !.dup_count = IF dup THEN (@ + 1) % (UINT16_MAX + 1) ELSE @,
                !.rx_unique = uniq,
                !.last_seq = last,
                !.rx_counter = IF @ < UINT16_MAX THEN @ + 1 ELSE @,
                !.tx_est = est,
                !.prr1000 = IF est > 0 THEN ((1000 * uniq) \div est) % (UINT16_MAX + 1) ELSE 0]

update_neighbor(t, addr, rssi_new, root_seq, clk) ==
  LET idx    == find_neighbor(t, addr)
      victim == victim_from(t, 2, 1)
      e      == new_neighbor(addr, rssi_new, root_seq, clk)
  IN  IF idx = 0
      THEN IF Len(t) < MAX_NEIGHBORS THEN Append(t, e)
           ELSE IF allow_replace(rssi_new, t[victim], clk) THEN [t EXCEPT ![victim] = e]
           ELSE t
      ELSE [t EXCEPT ![idx] = refresh_neighbor(@, rssi_new, root_seq, clk)]

\* The address of the best next neighbour, 0 for NULL.
get_bnn(t) == IF Len(t) = 0 THEN 0 ELSE t[1].addr

RECURSIVE decay_from(_, _)
decay_from(t, i) ==
  IF i > Len(t) THEN t
  ELSE LET c  == t[i].rx_counter
           c2 == IF c > OF_DECAY_STEP THEN c - OF_DECAY_STEP ELSE 0
           t2 == [t EXCEPT ![i].rx_counter = c2]
       IN  IF c2 = 0 THEN decay_from(remove_neighbor(t2, i), i)
           ELSE decay_from(t2, i + 1)

of_decay_tick(t) == sort_neighbors_by_rssi(decay_from(t, 1))

\* ---- the nodes of the tree-routing program ----

BnnNodes == {ROOT_ID, 2, 3, 4}
NoPkt    == <<>>

\* The instants that are followed: an admission, one tick later, and the
\* end of the hold-down window of an entry admitted at 0.
BnnTimes == {0, 1, HOLD_WINDOW}

\* A node after PROCESS_BEGIN: empty table, nothing flooded, no rebroadcast
\* pending.
BnnBoot == [tbl |-> <<>>, last |-> 0, rb |-> NoPkt, seq_id |-> 0]

\* What update_neighbor did with the beacon (history, for the witnesses).
update_kind(t, addr, rssi_new, clk) ==
  IF find_neighbor(t, addr) # 0 THEN "update"
  ELSE IF Len(t) < MAX_NEIGHBORS THEN "new"
  ELSE IF allow_replace(rssi_new, t[victim_from(t, 2, 1)], clk) THEN "replace"
  ELSE "reject"

\* beacon_recv on node me with state st for a beacon pkt sent by from.
beacon_recv(st, me, from, rssi, pkt, clk) ==
  LET t1  == sort_neighbors_by_rssi(update_neighbor(st.tbl, from, rssi, pkt.seq, clk))
      fwd == me # ROOT_ID /\ seq_newer(pkt.seq, st.last) /\ pkt.hop < MAX_BEACON_HOPS
  IN  IF pkt.origin # ROOT_ID THEN st
      ELSE [st EXCEPT !.tbl  = t1,
                      !.last = IF fwd THEN pkt.seq ELSE @,
                      !.rb   = IF fwd THEN [pkt EXCEPT !.hop = (@ + 1) % (UINT8_MAX + 1)]
                               ELSE @]

\* The copies of a broadcast of node n: one for every node that hears n,
\* with the RSSI of that link.
bnn_copies(n, pkt) ==
  {[to |-> m, from |-> n, rssi |-> bnn.rssi[<<n, m>>], pkt |-> pkt] :
     m \in {m \in BnnNodes : <<n, m>> \in DOMAIN bnn.rssi}}

\* The beacon timer on the root.
BnnBeacon ==
  /\ bnn.st[ROOT_ID].seq_id < MaxBeacons
  /\ LET q == (bnn.st[ROOT_ID].seq_id + 1) % (UINT16_MAX + 1)
         b == [seq |-> q, origin |-> ROOT_ID, hop |-> 0]
     IN  bnn' = [bnn EXCEPT !.st[ROOT_ID].seq_id = q,
                            !.st[ROOT_ID].last = q,
                            !.air = @ \cup bnn_copies(ROOT_ID, b)]
  /\ UNCHANGED <<node_vars, net>>

\* beacon_recv for the copy c of a beacon.
BnnRecv(c) ==
  /\ LET k == find_neighbor(bnn.st[c.to].tbl, c.from)
     IN  k # 0 => /\ bnn.st[c.to].tbl[k].rx_counter < MaxRx
                  /\ bnn.st[c.to].tbl[k].dup_count < MaxRx
  /\ bnn' = [bnn EXCEPT
               !.st[c.to] = beacon_recv(@, c.to, c.from, c.rssi, c.pkt, bnn.clk),
               !.ev[c.to] = IF c.pkt.origin = ROOT_ID
                            THEN update_kind(bnn.st[c.to].tbl, c.from, c.rssi, bnn.clk)
                            ELSE "none",
               !.air = @ \ {c}]
  /\ UNCHANGED <<node_vars, net>>

\* do_rebroadcast on node n when its jitter timer fires.
BnnRebroadcast(n) ==
  /\ bnn.st[n].rb # NoPkt
  /\ bnn' = [bnn EXCEPT !.st[n].rb = NoPkt,
                        !.air = @ \cup bnn_copies(n, bnn.st[n].rb)]
  /\ UNCHANGED <<node_vars, net>>

\* A relay that leaves the ttl as it is.
ttl_keep(ttl) == ttl

\* pkt.ttl-- on the uint8_t field of data_recv.
ttl_dec(ttl) == (ttl - 1) % (UINT8_MAX + 1)

\* The data timer on a non-root node that has a best next neighbour.
\* A frame carries its history: the number of relays that forwarded it
\* and the node its sender received it from (0 at the originator).
BnnData(n) ==
  /\ n # ROOT_ID
  /\ get_bnn(bnn.st[n].tbl) # 0
  /\ bnn.st[n].seq_id < MaxData
  /\ LET q == (bnn.st[n].seq_id + 1) % (UINT16_MAX + 1)
         d == [seq |-> q, sender |-> n, ttl |-> DATA_TTL, value |-> 42]
     IN  bnn' = [bnn EXCEPT
                   !.st[n].seq_id = q,
                   !.ev[n] = "data",
                   !.frames = @ \cup {[to |-> get_bnn(bnn.st[n].tbl), from |-> n,
                                       pkt |-> d, relays |-> 0, heard_from |-> 0]}]
  /\ UNCHANGED <<node_vars, net>>

\* data_recv on the node the frame f is addressed to.
BnnDataRecv(f) ==
  /\ f \in bnn.frames
  /\ LET me  == f.to
         pkt == [f.pkt EXCEPT !.ttl = ttl_dec(@)]
         nh  == get_bnn(bnn.st[me].tbl)
         fwd == me # ROOT_ID /\ f.pkt.ttl > 0 /\ nh # 0 /\ nh # f.from
     IN  bnn' = [bnn EXCEPT
                   !.ev[me] = IF fwd THEN "forward" ELSE IF me = ROOT_ID THEN "root" ELSE "drop",
                   !.frames = (@ \ {f}) \cup
                              (IF fwd THEN {[to |-> nh, from |-> me, pkt |-> pkt,
                                             relays |-> f.relays + 1,
                                             heard_from |-> f.from]}
                               ELSE {})]
  /\ UNCHANGED <<node_vars, net>>

\* The decay timer on node n.
BnnDecay(n) ==
  /\ bnn.st[n].tbl # <<>>
  /\ bnn' = [bnn EXCEPT !.st[n].tbl = of_decay_tick(@), !.ev[n] = "decay"]
  /\ UNCHANGED <<node_vars, net>>

\* Time passes.
BnnTick(t) ==
  /\ t > bnn.clk
  /\ bnn' = [bnn EXCEPT !.clk = t]
  /\ UNCHANGED <<node_vars, net>>

\* ---- one node of the tree-routing program in a free radio environment ----

\* One sender more than the table has entries. Every sender is heard at
\* its own RSSI: the weakest one, one just below the hysteresis threshold
\* above it, and the others exactly at that threshold.
AdmitAddrs  == 3..(MAX_NEIGHBORS + 3)
AdmitRssi(a) == IF a = 3 THEN -80
                ELSE IF a = 4 THEN -80 + RSSI_HYST_DB - 1
                ELSE -80 + RSSI_HYST_DB
AdmitCopies == {[to |-> 2, from |-> a, rssi |-> AdmitRssi(a),
                 pkt |-> [seq |-> 1, origin |-> ROOT_ID, hop |-> 1]] : a \in AdmitAddrs}

InitAdmit ==
  /\ Resting
  /\ policy = PICK_HOP
  /\ net = NoNet
  /\ bnn = [st     |-> [n \in BnnNodes |-> BnnBoot],
            ev     |-> [n \in BnnNodes |-> "none"],
            clk    |-> 0,
            rssi   |-> <<>>,
            air    |-> {},
            frames |-> {}]

NextAdmit ==
  \/ \E c \in AdmitCopies : BnnRecv(c)
  \/ BnnDecay(2)
  \/ \E t \in BnnTimes : BnnTick(t)

SpecAdmit == InitAdmit /\ [][NextAdmit]_vars

\* ---- the flood of the root's beacons in a network of four nodes ----

\* The links of the network, as the RSSI at which the receiver hears the
\* sender. The links between 2, 3 and 4 are asymmetric: 2 hears 3 best,
\* 3 hears 4 best and 4 hears 2 best.
TreeRssi ==
  (<<ROOT_ID, 2>> :> -80) @@ (<<2, ROOT_ID>> :> -80) @@
  (<<3, 2>> :> -50) @@ (<<2, 3>> :> -70) @@
  (<<4, 3>> :> -50) @@ (<<3, 4>> :> -70) @@
  (<<2, 4>> :> -50) @@ (<<4, 2>> :> -70)

TreeBoot ==
  [st     |-> [n \in BnnNodes |-> BnnBoot],
   ev     |-> [n \in BnnNodes |-> "none"],
   clk    |-> 0,
   rssi   |-> TreeRssi,
   air    |-> {},
   frames |-> {}]

InitTree ==
  /\ Resting
  /\ policy = PICK_HOP
  /\ net = NoNet
  /\ bnn = TreeBoot

NextTree ==
  \/ BnnBeacon
  \/ \E c \in bnn.air : BnnRecv(c)
  \/ \E n \in BnnNodes : BnnRebroadcast(n)
  \/ \E t \in BnnTimes : BnnTick(t)

SpecTree == InitTree /\ [][NextTree]_vars

\* ---- data forwarding in the network of four nodes ----

\* The tables once the first beacon of the root has been flooded: the
\* first entries form the cycle 2 -> 3 -> 4 -> 2.
FwdTbl ==
  [n \in BnnNodes |->
     IF n = ROOT_ID THEN <<new_neighbor(2, -80, 1, 0)>>
     ELSE IF n = 2 THEN <<new_neighbor(3, -50, 1, 0), new_neighbor(4, -70, 1, 0),
                          new_neighbor(ROOT_ID, -80, 1, 0)>>
     ELSE IF n = 3 THEN <<new_neighbor(4, -50, 1, 0), new_neighbor(2, -70, 1, 0)>>
     ELSE <<new_neighbor(2, -50, 1, 0), new_neighbor(3, -70, 1, 0)>>]

FwdCycle ==
  [TreeBoot EXCEPT
     !.st = [n \in BnnNodes |->
               [tbl |-> FwdTbl[n], last |-> 1, rb |-> NoPkt,
                seq_id |-> IF n = ROOT_ID THEN 1 ELSE 0]],
     !.ev = [n \in BnnNodes |-> "new"]]

\* The same flood before node 4 has rebroadcast: node 3 knows node 2 only.
FwdEarly ==
  [FwdCycle EXCEPT
     !.st[2].tbl = <<new_neighbor(3, -50, 1, 0), new_neighbor(ROOT_ID, -80, 1, 0)>>,
     !.st[3].tbl = <<new_neighbor(2, -70, 1, 0)>>,
     !.st[4].rb  = [seq |-> 1, origin |-> ROOT_ID, hop |-> 2]]

\* The nodes whose data timer is followed.
DataSources == {2}

InitFwd ==
  /\ Resting
  /\ policy = PICK_HOP
  /\ net = NoNet
  /\ bnn \in {FwdCycle, FwdEarly}

NextFwd ==
  \/ \E c \in bnn.air : BnnRecv(c)
  \/ \E n \in BnnNodes : BnnRebroadcast(n)
  \/ \E n \in DataSources : BnnData(n)
  \/ \E f \in bnn.frames : BnnDataRecv(f)
  \/ \E n \in BnnNodes : BnnDecay(n)

SpecFwd == InitFwd /\ [][NextFwd]_vars

\* The radio delivers every unicast frame that is in flight.
SpecFwdFair == SpecFwd /\ WF_vars(\E f \in bnn.frames : BnnDataRecv(f))

\* ---- a node whose neighbourhood is larger than its table ----

\* One neighbour id more than the table has slots.
EvictIds     == 2..(NBR_CAP + 2)
EvictBeacons == [adv_parent : EvictIds, adv_hops : HopVals, adv_seq : {1}]

InitEvict == Init /\ node_id = SelfId /\ policy = PICK_HOP

NextEvict ==
  \/ \E dt \in TimeSteps : Tick(dt)
  \/ \E b \in EvictBeacons, r \in RssiVals : CbBc(b, r)

SpecEvict == InitEvict /\ [][NextEvict]_vars

\* The sink printing the temperature of the frames it receives.
InitPrint ==
  /\ node_id = SINK_ID
  /\ policy \in Policies
  /\ now = 0
  /\ nbrs = nbr_init
  /\ next_hop = 0
  /\ prev = 0
  /\ data_seq = 0
  /\ disc_seq_tx = 0
  /\ hop_hist = HistZero
  /\ pick_pc = "wait"
  /\ bc_sent = [q \in 1..MaxSeq |-> 0]
  /\ acct = [id \in Ids |-> NoAcct]
  /\ bc_at = -1
  /\ aged = 0
  /\ silent = 0
  /\ shown = NoTemp
  /\ net = NoNet
  /\ bnn = NoBnn

NextPrint == \E from \in FloodIds, d \in PrintMsgs : CbUcData(from, d)

SpecPrint == InitPrint /\ [][NextPrint]_vars


\* ------------------------------------------------------------ claims
Used(i) == nbrs[i].used = 1

\* C1: a non-sink node rebroadcasts at most one beacon per adv_seq value,
\* whatever the order and duplication of the beacons it receives.
C1_OneRebroadcastPerSeq ==
  node_id # SINK_ID => \A q \in 1..MaxSeq : bc_sent[q] <= 1

\* C2: a beacon with adv_seq <= prev (prev # 0) is dropped: nothing is
\* rebroadcast and prev is left unchanged; prev never decreases.
C2_StaleBeaconDropped ==
  [][ /\ \A b \in FloodBeacons, r \in FloodRssi :
           (node_id # SINK_ID /\ prev # 0 /\ b.adv_seq <= prev /\ CbBc(b, r))
             => (bc_sent' = bc_sent /\ prev' = prev)
      /\ prev' >= prev ]_vars

\* C3: after n data frames sent to a neighbour in the table and m <= n ACKs
\* received from it, its record has tx = n, rx_ack = m and prr = m/n.
C3_PrrAccounting ==
  \A i \in Slots :
    (Used(i) /\ nbrs[i].id \in Ids /\ acct[nbrs[i].id].a <= acct[nbrs[i].id].s)
      => /\ nbrs[i].tx = acct[nbrs[i].id].s
         /\ nbrs[i].rx_ack = acct[nbrs[i].id].a
         /\ acct[nbrs[i].id].s > 0
              => nbrs[i].prr = Float(acct[nbrs[i].id].a, acct[nbrs[i].id].s)

\* C4: every used slot has rx_ack <= tx, prr = rx_ack/tx when tx > 0 and
\* prr = 0 when tx = 0, with tx and rx_ack 16-bit counters.
C4_PrrInvariant ==
  \A i \in Slots :
    Used(i) => /\ nbrs[i].rx_ack <= nbrs[i].tx
               /\ nbrs[i].tx > 0 => nbrs[i].prr = Float(nbrs[i].rx_ack, nbrs[i].tx)
               /\ nbrs[i].tx = 0 => nbrs[i].prr = FZero

\* C5: the table never holds two used slots with the same neighbour id.
C5_OneSlotPerId ==
  \A i, j \in Slots : (Used(i) /\ Used(j) /\ nbrs[i].id = nbrs[j].id) => i = j

\* A full table from which an upsert has evicted the parent's record (the
\* parent pointer names an id that only eviction can take out of the table).
C5_Witness ==
  /\ \A i \in Slots : Used(i)
  /\ next_hop # 0
  /\ ~InTable(nbrs, next_hop)

\* C6: after nbr_expire every used slot is at most NBR_TTL old, every slot
\* older than NBR_TTL is free, and next_hop is 0 if the parent's slot was freed.
C6_ExpirePost ==
  [][ PickExpire =>
        /\ \A i \in Slots : nbrs'[i].used = 1 => now - nbrs'[i].seen_at <= NBR_TTL
        /\ \A i \in Slots : (Used(i) /\ now - nbrs[i].seen_at > NBR_TTL) => nbrs'[i].used = 0
        /\ \A i \in Slots : (Used(i) /\ nbrs[i].id = next_hop /\ nbrs'[i].used = 0)
                                => next_hop' = 0 ]_vars

\* nbr_expire has just freed the parent's slot and kept a younger neighbour.
C6_Witness ==
  /\ pick_pc = "reselect"
  /\ aged # 0
  /\ next_hop = 0
  /\ ~InTable(nbrs, aged)
  /\ \E i \in Slots : Used(i)

\* C7 as stated: at the end of a selection pass that runs more than NBR_TTL
\* after the parent's last beacon, the parent's slot is free and next_hop = 0
\* (the node may have sent data to the parent and may have other neighbours).
\* Stated for a parent whose beacons were heard since it became the parent.
C7_AgingAsStated ==
  [][ (pick_pc = "reselect" /\ silent # 0)
        => (next_hop' = 0 /\ ~InTable(nbrs', silent)) ]_vars

\* C7 amended: at the end of a selection pass that runs more than NBR_TTL
\* after the last refresh of the parent's slot (beacon, ACK or data frame
\* from the parent), the slot is free and next_hop is no longer that parent;
\* next_hop is 0 when no other neighbour is left in the table.
C7_AgingAmended ==
  [][ (pick_pc = "reselect" /\ aged # 0)
        => /\ ~InTable(nbrs', aged)
           /\ next_hop' # aged
           /\ (\A i \in Slots : ~Used(i)) => next_hop' = 0 ]_vars

\* The pass has found the parent's slot stale (its last beacon is older
\* still) while another neighbour is in the table under PICK_HOP.
C7_Witness ==
  /\ pick_pc = "reselect"
  /\ aged # 0
  /\ silent = aged
  /\ policy = PICK_HOP
  /\ \E i \in Slots : Used(i) /\ nbrs[i].id # aged

\* C8: once nbr_expire has cleared the parent pointer, the next beacon
\* received sets next_hop to its adv_parent.  (On a non-sink node prev # 0
\* and next_hop = 0 hold together only after nbr_expire cleared the parent:
\* the first beacon and parent_reselect set next_hop to a neighbour id.)
C8_ReacquireAtNextBeacon ==
  [][ \A b \in FloodBeacons, r \in FloodRssi :
        (node_id # SINK_ID /\ prev # 0 /\ next_hop = 0 /\ CbBc(b, r))
          => next_hop' = b.adv_parent ]_vars

\* C9: under PICK_RSSI, parent_reselect on a non-empty table sets next_hop
\* to a used neighbour of highest rssi, for any signed rssi values.
C9_RssiPicksStrongest ==
  [][ (pick_pc = "reselect" /\ policy = PICK_RSSI /\ \E i \in Slots : Used(i))
        => \E i \in Slots : /\ Used(i)
                            /\ next_hop' = nbrs[i].id
                            /\ \A j \in Slots : Used(j) => nbrs[j].rssi <= nbrs[i].rssi ]_vars

\* Neighbours the policy scores (the table of policies): PICK_HOP needs a
\* known hop count, PICK_PRR needs PRR_MIN_SAMPLES, PICK_RSSI takes all.
Eligible(i) ==
  /\ Used(i)
  /\ policy = PICK_HOP => nbrs[i].hops_via # UINT16_MAX
  /\ policy = PICK_PRR => nbrs[i].tx >= PRR_MIN_SAMPLES

TopScore ==
  {i \in Slots : Eligible(i) /\ \A j \in Slots :
                    Eligible(j) => ~FGt(score(policy, nbrs[j]), score(policy, nbrs[i]))}

LexBefore(i, j) ==
  \/ nbrs[i].hops_via < nbrs[j].hops_via
  \/ nbrs[i].hops_via = nbrs[j].hops_via /\ nbrs[i].rssi > nbrs[j].rssi
  \/ nbrs[i].hops_via = nbrs[j].hops_via /\ nbrs[i].rssi = nbrs[j].rssi
       /\ nbrs[i].id < nbrs[j].id

\* C10: among the used neighbours that share the maximum score under
\* the active policy, the main pass of parent_reselect selects the first by
\* (lower hops_via, higher rssi, lower id).
C10_TieBreak ==
  [][ (pick_pc = "reselect" /\ TopScore # {})
        => \E i \in TopScore : /\ next_hop' = nbrs[i].id
                               /\ \A j \in TopScore \ {i} : LexBefore(i, j) ]_vars

\* Used neighbours with enough PRR samples, and with a known hop count.
Sampled(i)  == Used(i) /\ nbrs[i].tx >= PRR_MIN_SAMPLES
KnownHop(i) == Used(i) /\ nbrs[i].hops_via # UINT16_MAX

\* C11: under PICK_PRR, when no used neighbour has PRR_MIN_SAMPLES
\* transmissions, parent_reselect chooses a used neighbour of lowest known
\* hops_via and, among those, of highest rssi; when some used neighbour has
\* PRR_MIN_SAMPLES, it chooses a neighbour of highest prr among those that
\* have them (the fallback pass does not run).
C11_PrrFallback ==
  [][ (pick_pc = "reselect" /\ policy = PICK_PRR)
        => /\ ((\A i \in Slots : ~Sampled(i)) /\ (\E i \in Slots : KnownHop(i)))
                => \E i \in Slots :
                     /\ KnownHop(i)
                     /\ next_hop' = nbrs[i].id
                     /\ \A j \in Slots : KnownHop(j) =>
                          \/ nbrs[i].hops_via < nbrs[j].hops_via
                          \/ nbrs[i].hops_via = nbrs[j].hops_via
                               /\ nbrs[i].rssi >= nbrs[j].rssi
           /\ (\E i \in Slots : Sampled(i))
                => \E i \in Slots :
                     /\ Sampled(i)
                     /\ next_hop' = nbrs[i].id
                     /\ \A j \in Slots : Sampled(j) => ~FGt(nbrs[j].prr, nbrs[i].prr) ]_vars

\* A PICK_PRR pass has chosen a parent from a table without enough samples
\* in which two neighbours have different known hop counts.
C11_Witness ==
  /\ pick_pc = "wait"
  /\ policy = PICK_PRR
  /\ next_hop # 0
  /\ \A i \in Slots : ~Sampled(i)
  /\ \E i, j \in Slots : KnownHop(i) /\ KnownHop(j) /\ nbrs[i].hops_via < nbrs[j].hops_via

\* C12: parent_reselect is idempotent: called again on the same table under
\* the same policy it chooses the same id and leaves next_hop unchanged.
C12_ReselectIdempotent ==
  [][ pick_pc = "reselect"
        => /\ parent_reselect(nbrs', next_hop', policy') = next_hop'
           /\ pick_best(nbrs', policy') = pick_best(nbrs, policy) ]_vars

\* A pass has chosen a parent among two neighbours of equal score.
C12_Witness ==
  /\ pick_pc = "wait"
  /\ next_hop # 0
  /\ \E i, j \in Slots : /\ i # j /\ Used(i) /\ Used(j)
                         /\ FEq(score(policy, nbrs[i]), score(policy, nbrs[j]))
                         /\ next_hop = nbrs[i].id

\* C15: at the sink, hop_hist changes only when a data frame arrives: a frame
\* with hops = k < HOPS_MAX adds one to bucket k and to no other bucket, a
\* frame with hops >= HOPS_MAX changes no bucket, and no other step changes
\* hop_hist (so each bucket counts the frames received with that hop count).
C15_SinkHistogram ==
  [][ \/ hop_hist' = hop_hist
      \/ \E from \in Ids, d \in DataMsgs :
            /\ CbUcData(from, d)
            /\ node_id = SINK_ID
            /\ d.hops < HOPS_MAX
            /\ hop_hist' = [hop_hist EXCEPT ![d.hops] = @ + 1] ]_vars

\* C16: the data_id of the frames a node originates is strictly increasing
\* over the whole lifetime of the node (data_id is data_seq after its
\* increment, a 16-bit counter).
C16_DataSeqIncreasing ==
  [][ data_seq' # data_seq => data_seq' > data_seq ]_vars

\* C17: when the data timer fires on a non-sink node without a parent, no
\* frame is sent: data_seq, the neighbour table and the count of frames
\* sent are unchanged.
C17_NoParentNoSend ==
  [][ (node_id # SINK_ID /\ next_hop = 0 /\ ProcData)
        => (data_seq' = data_seq /\ nbrs' = nbrs /\ acct' = acct) ]_vars

\* A non-sink node that has originated a frame, has lost its parent since
\* and still has a neighbour in its table; its data timer may fire.
C17_Witness ==
  /\ node_id # SINK_ID
  /\ pick_pc = "wait"
  /\ next_hop = 0
  /\ data_seq > 0
  /\ \E i \in Slots : Used(i)

\* C18: next_hop changes only in parent_set, called from parent_reselect and
\* from the bootstrap of the first beacon, and in nbr_expire when the slot
\* of the current parent expires; the data timer, a received data frame, a
\* received ACK and a beacon that is not the first one (its upsert may evict
\* the parent's record from a full table) leave next_hop unchanged.
C18_ParentFrame ==
  [][ next_hop' # next_hop
        => /\ \/ pick_pc = "reselect" /\ next_hop' = parent_reselect(nbrs, next_hop, policy)
              \/ /\ pick_pc = "wait" /\ next_hop' = 0
                 /\ \E i \in Slots : nbrs[i].id = next_hop /\ Stale(nbrs[i], now)
                 /\ PickExpire
              \/ /\ prev = 0
                 /\ \E b \in Beacons, r \in RssiVals :
                      next_hop' = b.adv_parent /\ CbBc(b, r)
           /\ ~ProcData
           /\ ~(\E from \in Ids, d \in DataMsgs : CbUcData(from, d))
           /\ ~(\E from \in Ids : CbUcAck(from))
           /\ ~(prev # 0 /\ \E b \in Beacons, r \in RssiVals : CbBc(b, r))
    ]_vars

\* The parent has been sent data and has acknowledged it, and a later beacon
\* of another neighbour is in the table: next_hop is still that parent.
C18_Witness ==
  /\ next_hop # 0
  /\ prev # 0
  /\ \E i, j \in Slots : /\ i # j /\ Used(i) /\ Used(j)
                         /\ nbrs[i].id = next_hop
                         /\ nbrs[i].rx_ack > 0
                         /\ nbrs[i].tx > nbrs[i].rx_ack

\* C19: for every 16-bit raw code r, temp_print prints a decimal with one
\* fractional digit in 0..9 whose value is r/10 - 396 tenths of a degree
\* (6000 is printed as 20.4), also for r < 3960.
C19_TempRendering ==
  shown # NoTemp
    => /\ shown.frac \in 0..9
       /\ 10 * shown.int + shown.frac = (shown.raw \div 10) - 396
       /\ shown.raw = 6000 => (shown.int = 20 /\ shown.frac = 4)

\* Every round has been started and delivered, and every node has run its
\* selection pass since the last beacon it received.
Converged ==
  /\ net.seq = MaxRounds
  /\ net.air = {}
  /\ \A n \in NetNodes : net.picked[n]

\* C13: under PICK_HOP, once every round has reached every node, every
\* non-sink node has a parent and the hops_via it has recorded for that
\* parent is the hop count of its shortest path to the sink, whatever the
\* order in which the copies were delivered.  Stated for the nodes whose
\* table holds all their neighbours.
C13_Convergence ==
  Converged =>
    \A n \in NetNodes \ {SINK_ID} :
      Cardinality(Nbrs(n)) <= NBR_CAP =>
        /\ net.nh[n] # 0
        /\ \E i \in Slots : /\ net.tbl[n][i].used = 1
                            /\ net.tbl[n][i].id = net.nh[n]
                            /\ net.tbl[n][i].hops_via = hop_dist(n)

\* C14: every data frame the sink receives with hops = k was originated with
\* hops = 1 and went through exactly k - 1 relays, and its src, temp_raw and
\* data_id are those of the originator.
C14_HopInvariant ==
  \A e \in net.log :
    /\ e.org.hops = 1
    /\ e.relays = e.d.hops - 1
    /\ e.d.src = e.org.src
    /\ e.d.temp_raw = e.org.temp_raw
    /\ e.d.data_id = e.org.data_id

\* The sink has received a frame that went through at least one relay.
C14_Relayed == \E e \in net.log : e.relays >= 1

Oldest(v) ==
  \A j \in Slots : \/ nbrs[v].seen_at < nbrs[j].seen_at
                   \/ nbrs[v].seen_at = nbrs[j].seen_at /\ v <= j

\* C21: when cb_bc upserts an id that is absent from a full table, exactly
\* the slot with the smallest seen_at (lowest index among equals) is
\* replaced; the new record has tx = rx_ack = 0, prr = 0 and seen_at = now,
\* every other slot is unchanged and all NBR_CAP slots stay used.
C21_CapacityEviction ==
  [][ (node_id # SINK_ID /\ \A i \in Slots : Used(i))
        => \A b \in EvictBeacons, r \in RssiVals :
             (~InTable(nbrs, b.adv_parent) /\ CbBc(b, r))
               => \E v \in Slots :
                    /\ Oldest(v)
                    /\ nbrs'[v] = [used |-> 1, id |-> b.adv_parent, rssi |-> r,
                                   hops_via |-> b.adv_hops, tx |-> 0, rx_ack |-> 0,
                                   prr |-> FZero, seen_at |-> now]
                    /\ \A j \in Slots \ {v} : nbrs'[j] = nbrs[j]
                    /\ \A j \in Slots : nbrs'[j].used = 1
    ]_vars

\* A full table whose slot 0 is the newer one and whose slot 1 holds a
\* record made this instant that has taken the place of the parent's.
C21_Witness ==
  /\ node_id # SINK_ID
  /\ \A i \in Slots : Used(i)
  /\ next_hop # 0 /\ ~InTable(nbrs, next_hop)
  /\ nbrs[1].seen_at = now /\ nbrs[1].tx = 0
  /\ nbrs[0].seen_at < now

\* C25: on a non-sink node a parent pointer other than 0 names a used slot
\* of the neighbour table.
C25_ParentIsNeighbor ==
  (node_id # SINK_ID /\ next_hop # 0) => InTable(nbrs, next_hop)

\* The node reached from n by following k parent pointers, 0 past the root.
RECURSIVE anc(_, _)
anc(n, k) == IF k = 0 \/ n = 0 THEN n ELSE anc(net.nh[n], k - 1)

\* C27: under PICK_HOP with a single sink the parent graph is acyclic:
\* following next_hop from a non-sink node never comes back to a node.
C27_LoopFree ==
  \A n \in NetNodes \ {SINK_ID} :
    \A k \in 1..Cardinality(NetNodes) : anc(n, k) # n

\* C26: a data frame handed to unicast_send by data_send, originated or
\* relayed, is addressed to a parent: next_hop is not 0 at that moment.
C26_NoSendWithoutParent ==
  \A n \in NetNodes : net.pc[n] # NoSend => net.pc[n].to # 0

\* The table t with its slots placed in the order p.
Placed(t, p) == [i \in Slots |-> t[p[i]]]

SlotOrders == {p \in [Slots -> Slots] : \A i, j \in Slots : p[i] = p[j] => i = j}

\* C28: for every policy, the fallback pass of PICK_PRR included, the id
\* parent_reselect chooses does not depend on the slots the used records
\* are placed in.
C28_SlotOrderIndependence ==
  [][ pick_pc = "reselect"
        => \A p \in SlotOrders :
             parent_reselect(Placed(nbrs, p), next_hop, policy) = next_hop' ]_vars

BnnAddrs(t) == {t[i].addr : i \in 1..Len(t)}

\* The weakest RSSI in a table.
WeakestRssi(t) == CHOOSE r \in {t[i].rssi : i \in 1..Len(t)} :
                    \A i \in 1..Len(t) : r <= t[i].rssi

\* C22: when the table is full and a beacon arrives from an address that
\* is not in it, an entry of the weakest RSSI is replaced by the newcomer
\* if the newcomer's RSSI is at least RSSI_HYST_DB above that RSSI, and the
\* table is left unchanged otherwise; the table never holds more than
\* MAX_NEIGHBORS entries and never the same address twice.
C22_HysteresisAdmission ==
  [][ LET t  == bnn.st[2].tbl
          t2 == bnn'.st[2].tbl
      IN  /\ Len(t2) <= MAX_NEIGHBORS
          /\ \A i, j \in 1..Len(t2) : t2[i].addr = t2[j].addr => i = j
          /\ Len(t) = MAX_NEIGHBORS
               => \A c \in AdmitCopies :
                    (c.from \notin BnnAddrs(t) /\ BnnRecv(c))
                      => IF c.rssi >= WeakestRssi(t) + RSSI_HYST_DB
                         THEN \E v \in 1..Len(t) :
                                /\ t[v].rssi = WeakestRssi(t)
                                /\ BnnAddrs(t2) = (BnnAddrs(t) \ {t[v].addr}) \cup {c.from}
                                /\ \A i \in 1..Len(t) : i # v => \E j \in 1..Len(t2) : t2[j] = t[i]
                                /\ \E j \in 1..Len(t2) :
                                     /\ t2[j].addr = c.from /\ t2[j].rssi = c.rssi
                                     /\ t2[j].rx_counter = 1
                         ELSE t2 = t
    ]_vars

\* A full table has just turned a newcomer away, and the sender with the
\* strongest RSSI the environment offers has been admitted.
C22_Witness ==
  /\ bnn # NoBnn
  /\ Len(bnn.st[2].tbl) = MAX_NEIGHBORS
  /\ bnn.ev[2] = "reject"
  /\ \E i \in 1..MAX_NEIGHBORS : bnn.st[2].tbl[i].rssi = -80 + RSSI_HYST_DB

\* C23: an entry admitted at time t is not evicted by the capacity
\* replacement of update_neighbor before lock_until = t + HOLD_WINDOW,
\* whatever the RSSI of the newcomer.
C23_HoldDown ==
  [][ \A c \in AdmitCopies :
        BnnRecv(c) =>
          \A i \in 1..Len(bnn.st[2].tbl) :
            bnn.clk < bnn.st[2].tbl[i].lock_until
              => bnn.st[2].tbl[i].addr \in BnnAddrs(bnn'.st[2].tbl)
    ]_vars

\* The forwarding history of the frames in flight agrees with the ttl, and
\* no relay has sent a frame to the node it received it from.
C24_Bounded ==
  \A f \in bnn.frames :
    /\ f.relays <= DATA_TTL
    /\ f.pkt.ttl = DATA_TTL - f.relays
    /\ f.relays > 0 => f.to # f.heard_from

\* C24: a data packet originated with ttl = 10 is forwarded by at most 10
\* relays, no relay forwards it back to the neighbour it received it from,
\* and every packet eventually stops being forwarded, also when the next
\* hops form a cycle.
C24_BoundedForwarding == [](C24_Bounded) /\ <>[](bnn.frames = {})

\* A packet has gone round the cycle until its ttl is 0.
C24_Witness ==
  \E f \in bnn.frames :
    f.relays = DATA_TTL /\ f.pkt.ttl = 0 /\ f.heard_from # 0 /\ f.to # f.heard_from
====
